---- MODULE Spec2Model ----
(***************************************************************************)
(* Model of shifty (src/main.rs): WeeklyShift::prev_start, the parser of   *)
(* one anchor line (WeeklyShift::from_str) and the parser of a multi-line  *)
(* pattern (WeeklyShiftPattern::from_str).                                 *)
(*                                                                         *)
(* Time.  A NaiveDate is a day number counted from 2000-01-01 (day 0, a    *)
(* Saturday); a NaiveTime is a number of seconds since midnight; a         *)
(* NaiveDateTime is day * 86400 + seconds; an absolute instant is the      *)
(* number of seconds since 2000-01-01T00:00:00Z.  A DateTime<Tz> is the    *)
(* record [utc, tz]: the instant and the zone tag it is displayed in.      *)
(* A zone is the list of its offset spans, as in the tz database.          *)
(***************************************************************************)
EXTENDS Integers, Sequences, FiniteSets, TLC

VARIABLES shift, dt, result, requery, retag, line, parsed, text, pattern

vars == <<shift, dt, result, requery, retag, line, parsed, text, pattern>>

resolverVars == <<shift, dt, result, requery, retag>>
lineVars == <<line, parsed>>
patternVars == <<text, pattern>>

-----------------------------------------------------------------------------
(* Bounds of the model *)

\* reference instants lie within RefRadius days of each pivot day
RefRadius == 3
\* a line has at most MaxLineLen atoms (words and spaces)
MaxLineLen == 7
\* a text has at most MaxLines lines
MaxLines == 3

-----------------------------------------------------------------------------
(* chrono: the proleptic Gregorian calendar and the ISO week date *)

SecsPerDay == 24 * 3600

Years == 1998..2002

IsLeap(y) == (y % 4 = 0 /\ y % 100 # 0) \/ y % 400 = 0

DaysInYear(y) == IF IsLeap(y) THEN 366 ELSE 365

\* day number of January 1st of year y, counted from 2000-01-01
RECURSIVE DaysFrom2000(_)
DaysFrom2000(y) ==
    IF y = 2000 THEN 0
    ELSE IF y > 2000 THEN DaysFrom2000(y - 1) + DaysInYear(y - 1)
    ELSE DaysFrom2000(y + 1) - DaysInYear(y)

YearStarts == [y \in 1997..2003 |-> DaysFrom2000(y)]

YearStart(y) == YearStarts[y]

DaysInMonth(y, m) ==
    IF m = 2 THEN (IF IsLeap(y) THEN 29 ELSE 28)
    ELSE IF m \in {4, 6, 9, 11} THEN 30 ELSE 31

RECURSIVE DaysBeforeMonth(_, _)
DaysBeforeMonth(y, m) ==
    IF m = 1 THEN 0 ELSE DaysBeforeMonth(y, m - 1) + DaysInMonth(y, m - 1)

\* NaiveDate::from_ymd_opt(y, m, d).unwrap()
from_ymd(y, m, d) == YearStart(y) + DaysBeforeMonth(y, m) + (d - 1)

\* NaiveDate::and_hms_opt(h, m, s).unwrap() / NaiveTime of h:m:s
hms(h, m, s) == h * 3600 + m * 60 + s

\* Datelike::year
YearOf(d) == CHOOSE y \in Years : YearStart(y) <= d /\ d < YearStart(y + 1)

\* Datelike::ordinal, 1-based
Ordinal(d) == d - YearStart(YearOf(d)) + 1

\* Datelike::weekday as Weekday::number_from_monday: Mon = 1 .. Sun = 7
WeekdayOf(d) == ((d + 5) % 7) + 1

\* number of ISO weeks of year y (52 or 53)
nisoweeks(y) ==
    LET w1 == WeekdayOf(YearStart(y))
    IN  IF w1 = 4 \/ (IsLeap(y) /\ w1 = 3) THEN 53 ELSE 52

\* Datelike::iso_week: the ISO year and week number of a date
iso_week(d) ==
    LET y == YearOf(d)
        rawweek == (Ordinal(d) - WeekdayOf(d) + 10) \div 7
    IN  IF rawweek < 1 THEN [year |-> y - 1, week |-> nisoweeks(y - 1)]
        ELSE IF rawweek > nisoweeks(y) THEN [year |-> y + 1, week |-> 1]
        ELSE [year |-> y, week |-> rawweek]

None == [some |-> FALSE, val |-> 0]
Some(v) == [some |-> TRUE, val |-> v]

\* NaiveDate::from_isoywd_opt: the date of (ISO year, ISO week, weekday)
from_isoywd_opt(year, week, weekday) ==
    IF week < 1 \/ week > nisoweeks(year) THEN None
    ELSE LET jan4 == YearStart(year) + 3
             week1monday == jan4 - (WeekdayOf(jan4) - 1)
         IN  Some(week1monday + 7 * (week - 1) + (weekday - 1))

\* NaiveDate::checked_sub_days(Days::new(n))
checked_sub_days(d, n) == Some(d - n)

\* NaiveDate::and_time
and_time(d, t) == d * SecsPerDay + t

-----------------------------------------------------------------------------
(* chrono_tz: zones as lists of offset spans [start, off]: from the instant *)
(* start on (until the next span's start) local time is UTC + off seconds.  *)

BeginningOfTime == -(2000000000)

Fixed(off) == << [start |-> BeginningOfTime, off |-> off] >>

\* EU rule: last Sunday of March 01:00 UTC to last Sunday of October 01:00 UTC
EuSpans(std) ==
    << [start |-> BeginningOfTime, off |-> std],
       [start |-> and_time(from_ymd(2000, 3, 26), hms(1, 0, 0)), off |-> std + 3600],
       [start |-> and_time(from_ymd(2000, 10, 29), hms(1, 0, 0)), off |-> std] >>

\* US rule in 2000: first Sunday of April 02:00 EST to last Sunday of October 02:00 EDT
UsEasternSpans ==
    << [start |-> BeginningOfTime, off |-> -(5 * 3600)],
       [start |-> and_time(from_ymd(2000, 4, 2), hms(7, 0, 0)), off |-> -(4 * 3600)],
       [start |-> and_time(from_ymd(2000, 10, 29), hms(6, 0, 0)), off |-> -(5 * 3600)] >>

ZoneNames == {"Etc/UTC", "Europe/London", "CET", "EST", "America/New_York"}

UtcSpans == Fixed(0)
LondonSpans == EuSpans(0)
CetSpans == EuSpans(3600)
EstSpans == Fixed(-(5 * 3600))

timespans(tz) ==
    CASE tz = "Etc/UTC" -> UtcSpans
      [] tz = "Europe/London" -> LondonSpans
      [] tz = "CET" -> CetSpans
      [] tz = "EST" -> EstSpans
      [] tz = "America/New_York" -> UsEasternSpans

\* the span of tz that holds the instant utc
SpanAt(tz, utc) ==
    LET sp == timespans(tz)
    IN  CHOOSE i \in 1..Len(sp) :
            /\ sp[i].start <= utc
            /\ (i = Len(sp) \/ utc < sp[i + 1].start)

\* TimeZone::offset_from_utc_datetime
offset_from_utc(tz, utc) == timespans(tz)[SpanAt(tz, utc)].off

\* DateTime::with_timezone: the same instant under another zone tag
with_timezone(d, tz) == [utc |-> d.utc, tz |-> tz]

\* DateTime::naive_local
naive_local(d) == d.utc + offset_from_utc(d.tz, d.utc)

\* DateTime::date_naive
date_naive(d) == naive_local(d) \div SecsPerDay

\* the time of day of DateTime::naive_local
time_naive(d) == naive_local(d) % SecsPerDay

\* NaiveDateTime::and_local_timezone: the LocalResult of a civil date-time in
\* tz, as the list of the instants that read so, in span order: <<>> is
\* LocalResult::None (gap), <<a>> is Single, <<a, b>> is Ambiguous (fold)
RECURSIVE LocalFrom(_, _, _)
LocalFrom(ndt, tz, i) ==
    LET sp == timespans(tz)
    IN  IF i > Len(sp) THEN << >>
        ELSE LET u == ndt - sp[i].off
                 inSpan == /\ sp[i].start <= u
                           /\ (i = Len(sp) \/ u < sp[i + 1].start)
             IN  (IF inSpan THEN << [utc |-> u, tz |-> tz] >> ELSE << >>)
                    \o LocalFrom(ndt, tz, i + 1)

and_local_timezone(ndt, tz) == LocalFrom(ndt, tz, 1)

\* LocalResult::earliest
earliest(lr) == IF lr = << >> THEN None ELSE Some(lr[1])

\* LocalResult::latest
latest(lr) == IF lr = << >> THEN None ELSE Some(lr[Len(lr)])

-----------------------------------------------------------------------------
(* src/main.rs: struct WeeklyShift and WeeklyShift::prev_start *)

WeeklyShift(weekday, start, start_tz) ==
    [weekday |-> weekday, start |-> start, start_tz |-> start_tz]

NoResult == [kind |-> "none", utc |-> 0, tz |-> ""]
Panic == [kind |-> "panic", utc |-> 0, tz |-> ""]
Returned(d) == [kind |-> "ok", utc |-> d.utc, tz |-> d.tz]

\* line 43: the reference's civil date in the anchor's zone
date_in_shift_tz(self, d) == date_naive(with_timezone(d, self.start_tz))

\* lines 44-49: the anchor's weekday in the ISO week of that date
current_week_shift_start_date(self, d) ==
    LET w == iso_week(date_in_shift_tz(self, d))
    IN  from_isoywd_opt(w.year, w.week, self.weekday)

\* the candidate resolved by the latest instant of a fold
current_week_shift_start_latest(self, date) ==
    latest(and_local_timezone(and_time(date, self.start), self.start_tz))

\* lines 51-54: the current-week candidate, before the unwrap of line 55
current_week_shift_start(self, date) ==
    earliest(and_local_timezone(and_time(date, self.start), self.start_tz))

\* lines 59-64: the occurrence one week before, before the unwrap of line 65
week_prior_shift_start(self, date) ==
    LET prior == checked_sub_days(date, 7)
    IN  IF ~prior.some THEN None
        ELSE earliest(and_local_timezone(and_time(prior.val, self.start),
                                         self.start_tz))

\* prev_start without the week-prior branch: the candidate is always returned
prev_start_no_prior(self, d) ==
    LET date == current_week_shift_start_date(self, d)
    IN  IF ~date.some THEN Panic
        ELSE LET cur == current_week_shift_start(self, date.val)
             IN  IF ~cur.some THEN Panic ELSE Returned(cur.val)

\* prev_start that always steps one week back
prev_start_always_prior(self, d) ==
    LET date == current_week_shift_start_date(self, d)
    IN  IF ~date.some THEN Panic
        ELSE LET cur == current_week_shift_start(self, date.val)
             IN  IF ~cur.some THEN Panic
                 ELSE LET prior == week_prior_shift_start(self, date.val)
                      IN  IF ~prior.some THEN Panic ELSE Returned(prior.val)

\* prev_start that subtracts 168 hours from the candidate instant
prev_start_sub_168h(self, d) ==
    LET date == current_week_shift_start_date(self, d)
    IN  IF ~date.some THEN Panic
        ELSE LET cur == current_week_shift_start(self, date.val)
             IN  IF ~cur.some THEN Panic
                 ELSE IF cur.val.utc <= d.utc THEN Returned(cur.val)
                 ELSE Returned([utc |-> cur.val.utc - 7 * SecsPerDay,
                                tz |-> self.start_tz])

\* prev_start with an exclusive boundary: candidate < reference
prev_start_strict(self, d) ==
    LET date == current_week_shift_start_date(self, d)
    IN  IF ~date.some THEN Panic
        ELSE LET cur == current_week_shift_start(self, date.val)
             IN  IF ~cur.some THEN Panic
                 ELSE IF cur.val.utc < d.utc THEN Returned(cur.val)
                 ELSE LET prior == week_prior_shift_start(self, date.val)
                      IN  IF ~prior.some THEN Panic ELSE Returned(prior.val)

\* prev_start that steps eight days back instead of seven
prev_start_sub_8_days(self, d) ==
    LET date == current_week_shift_start_date(self, d)
    IN  IF ~date.some THEN Panic
        ELSE LET cur == current_week_shift_start(self, date.val)
             IN  IF ~cur.some THEN Panic
                 ELSE IF cur.val.utc <= d.utc THEN Returned(cur.val)
                 ELSE LET prior == week_prior_shift_start(self, date.val - 1)
                      IN  IF ~prior.some THEN Panic ELSE Returned(prior.val)

\* prev_start that compares the wall-clock readings instead of the instants
prev_start_naive_cmp(self, d) ==
    LET date == current_week_shift_start_date(self, d)
    IN  IF ~date.some THEN Panic
        ELSE LET cur == current_week_shift_start(self, date.val)
             IN  IF ~cur.some THEN Panic
                 ELSE IF naive_local(cur.val) <= naive_local(d)
                      THEN Returned(cur.val)
                 ELSE LET prior == week_prior_shift_start(self, date.val)
                      IN  IF ~prior.some THEN Panic ELSE Returned(prior.val)

\* prev_start that resolves the candidate only when its civil date-time is
\* not after the reference's, and otherwise goes to the week before unresolved
prev_start_lazy(self, d) ==
    LET date == current_week_shift_start_date(self, d)
    IN  IF ~date.some THEN Panic
        ELSE IF and_time(date.val, self.start)
                   > naive_local(with_timezone(d, self.start_tz))
             THEN LET prior == week_prior_shift_start(self, date.val)
                  IN  IF ~prior.some THEN Panic ELSE Returned(prior.val)
             ELSE LET cur == current_week_shift_start(self, date.val)
                  IN  IF ~cur.some THEN Panic
                      ELSE IF cur.val.utc <= d.utc THEN Returned(cur.val)
                      ELSE LET prior == week_prior_shift_start(self, date.val)
                           IN  IF ~prior.some THEN Panic
                               ELSE Returned(prior.val)

\* lines 42-67; every unwrap of a None is a panic
prev_start(self, d) ==
    LET date == current_week_shift_start_date(self, d)
    IN  IF ~date.some THEN Panic
        ELSE LET cur == current_week_shift_start(self, date.val)
             IN  IF ~cur.some THEN Panic
                 ELSE IF cur.val.utc <= d.utc THEN Returned(cur.val)
                 ELSE LET prior == week_prior_shift_start(self, date.val)
                      IN  IF ~prior.some THEN Panic ELSE Returned(prior.val)

-----------------------------------------------------------------------------
(* The resolver's inputs *)

Weekdays == 1..7

AnchorTimes == {hms(1, 30, 0), hms(2, 30, 0), hms(12, 30, 0)}

Anchors ==
    {WeeklyShift(wd, t, z) : wd \in Weekdays, t \in AnchorTimes, z \in ZoneNames}

\* the days of the test's occurrences and of the zones' transitions in 2000
PivotDays ==
    {from_ymd(2000, 1, 3), from_ymd(2000, 1, 10), from_ymd(2000, 3, 26),
     from_ymd(2000, 4, 2), from_ymd(2000, 10, 29)}

RefDays == {p + k : p \in PivotDays, k \in (-RefRadius)..RefRadius}

RefTimes ==
    {hms(0, 30, 0), hms(1, 29, 59), hms(1, 30, 0), hms(12, 29, 59),
     hms(12, 30, 0)}

\* the zones the test tags its references with
RefTags == {"Etc/UTC", "CET", "EST"}

\* a reference as the test builds it (lines 152-158):
\* date.and_hms_opt(..).and_local_timezone(tz).earliest().unwrap()
References ==
    {r.val : r \in {x \in {earliest(and_local_timezone(and_time(d, t), z)) :
                              d \in RefDays, t \in RefTimes, z \in RefTags} :
                       x.some}}

-----------------------------------------------------------------------------
(* The resolver as a state machine: one anchor, one reference, then        *)
(* prev_start on the reference, on its own result, and on the reference    *)
(* under another zone tag.                                                 *)

NoShift == WeeklyShift(0, 0, "")
NoDt == [utc |-> 0, tz |-> ""]
NoParse == [kind |-> "none", err |-> "", val |-> << >>]

InitResolver ==
    /\ shift \in Anchors
    /\ dt \in References
    /\ result = NoResult
    /\ requery = NoResult
    /\ retag = NoResult
    /\ line = << >>
    /\ parsed = NoParse
    /\ text = << >>
    /\ pattern = NoParse

PrevStart ==
    /\ result.kind = "none"
    /\ result' = prev_start(shift, dt)
    /\ UNCHANGED <<shift, dt, requery, retag, lineVars, patternVars>>

\* prev_start on the instant a first call returned
Requery ==
    /\ result.kind = "ok"
    /\ requery.kind = "none"
    /\ retag.kind = "none"
    /\ requery' = prev_start(shift, [utc |-> result.utc, tz |-> result.tz])
    /\ UNCHANGED <<shift, dt, result, retag, lineVars, patternVars>>

\* prev_start on the same instant under another zone tag
Retag(z) ==
    /\ result.kind # "none"
    /\ requery.kind = "none"
    /\ retag.kind = "none"
    /\ z # dt.tz
    /\ retag' = prev_start(shift, with_timezone(dt, z))
    /\ UNCHANGED <<shift, dt, result, requery, lineVars, patternVars>>

NextResolver ==
    \/ PrevStart
    \/ Requery
    \/ \E z \in RefTags : Retag(z)

SpecResolver == InitResolver /\ [][NextResolver]_vars

-----------------------------------------------------------------------------
(* src/main.rs: the parsers.  A string is a sequence of atoms: the space,   *)
(* the newline, and words that hold neither.  A token or a line is the      *)
(* sequence of the atoms between two separators, so that two adjacent       *)
(* words form one token that is none of the known names.                    *)

SP == " "
NL == "\n"

\* str::split(sep): the pieces between the separators, at least one piece
RECURSIVE Split(_, _)
Split(s, sep) ==
    IF \A i \in 1..Len(s) : s[i] # sep THEN << s >>
    ELSE LET i == CHOOSE j \in 1..Len(s) :
                      s[j] = sep /\ \A k \in 1..(j - 1) : s[k] # sep
         IN  << SubSeq(s, 1, i - 1) >> \o Split(SubSeq(s, i + 1, Len(s)), sep)

\* str::lines(): the pieces between newlines; a final newline ends the last
\* line and starts no further one, and the empty string has no line
Lines(s) ==
    LET parts == Split(s, NL)
    IN  IF parts[Len(parts)] = << >> THEN SubSeq(parts, 1, Len(parts) - 1)
        ELSE parts

WeekdayNames ==
    [Monday |-> 1, Tuesday |-> 2, Wednesday |-> 3, Thursday |-> 4,
     Friday |-> 5, Saturday |-> 6, Sunday |-> 7]

TimeNames == [x \in {"12:30", "01:30"} |->
                 IF x = "12:30" THEN hms(12, 30, 0) ELSE hms(1, 30, 0)]

\* <Weekday as FromStr>::from_str
parse_weekday(tok) ==
    IF Len(tok) = 1 /\ tok[1] \in DOMAIN WeekdayNames
    THEN Some(WeekdayNames[tok[1]]) ELSE None

\* <NaiveTime as FromStr>::from_str
parse_time(tok) ==
    IF Len(tok) = 1 /\ tok[1] \in DOMAIN TimeNames
    THEN Some(TimeNames[tok[1]]) ELSE None

\* <Tz as FromStr>::from_str
parse_tz(tok) ==
    IF Len(tok) = 1 /\ tok[1] \in ZoneNames THEN Some(tok[1]) ELSE None

NoShifts == << >>
ParsedOk(v) == [kind |-> "ok", err |-> "", val |-> v]
ParseErr(e) == [kind |-> "err", err |-> e, val |-> NoShift]
PatternErr(e) == [kind |-> "err", err |-> e, val |-> NoShifts]

\* the parser that counts the tokens before it parses any
from_str_count_first(s) ==
    LET split_str == Split(s, SP)
    IN  IF Len(split_str) < 3 THEN ParseErr("InvalidWeeklyShift")
        ELSE IF ~parse_weekday(split_str[1]).some THEN ParseErr("Weekday")
        ELSE IF ~parse_time(split_str[2]).some THEN ParseErr("StartTime")
        ELSE IF ~parse_tz(split_str[3]).some THEN ParseErr("TimeZone")
        ELSE ParsedOk(WeeklyShift(parse_weekday(split_str[1]).val,
                                  parse_time(split_str[2]).val,
                                  parse_tz(split_str[3]).val))

\* lines 82-108, <WeeklyShift as FromStr>::from_str: each token is taken from
\* the iterator and parsed before the next one is asked for
from_str(s) ==
    LET split_str == Split(s, SP)
    IN  IF Len(split_str) < 1 THEN ParseErr("InvalidWeeklyShift")
        ELSE IF ~parse_weekday(split_str[1]).some THEN ParseErr("Weekday")
        ELSE IF Len(split_str) < 2 THEN ParseErr("InvalidWeeklyShift")
        ELSE IF ~parse_time(split_str[2]).some THEN ParseErr("StartTime")
        ELSE IF Len(split_str) < 3 THEN ParseErr("InvalidWeeklyShift")
        ELSE IF ~parse_tz(split_str[3]).some THEN ParseErr("TimeZone")
        ELSE ParsedOk(WeeklyShift(parse_weekday(split_str[1]).val,
                                  parse_time(split_str[2]).val,
                                  parse_tz(split_str[3]).val))

\* Iterator::collect into Result<Vec<_>, _>: the items up to the first Err
RECURSIVE collect(_, _, _)
collect(ls, i, acc) ==
    IF i > Len(ls) THEN [kind |-> "ok", err |-> "", val |-> acc]
    ELSE LET r == from_str(ls[i])
         IN  IF r.kind = "err" THEN PatternErr(r.err)
             ELSE collect(ls, i + 1, Append(acc, r.val))

\* a collect that goes on after an Err and reports the last one
RECURSIVE collect_last_error(_, _, _, _)
collect_last_error(ls, i, acc, e) ==
    IF i > Len(ls)
    THEN (IF e = "" THEN [kind |-> "ok", err |-> "", val |-> acc]
          ELSE PatternErr(e))
    ELSE LET r == from_str(ls[i])
         IN  IF r.kind = "err" THEN collect_last_error(ls, i + 1, acc, r.err)
             ELSE collect_last_error(ls, i + 1, Append(acc, r.val), e)

pattern_from_str_last_error(s) == collect_last_error(Lines(s), 1, << >>, "")

\* lines 21-33, <WeeklyShiftPattern as FromStr>::from_str
pattern_from_str(s) == collect(Lines(s), 1, << >>)

-----------------------------------------------------------------------------
(* The line parser as a state machine: one line, then from_str on it *)

LineAtoms == {SP, "Monday", "12:30", "Etc/UTC"}

SeqsUpTo(S, n) == UNION {[1..k -> S] : k \in 0..n}

InitLine ==
    /\ line \in SeqsUpTo(LineAtoms, MaxLineLen)
    /\ parsed = NoParse
    /\ shift = NoShift
    /\ dt = NoDt
    /\ result = NoResult
    /\ requery = NoResult
    /\ retag = NoResult
    /\ text = << >>
    /\ pattern = NoParse

FromStr ==
    /\ parsed.kind = "none"
    /\ parsed' = from_str(line)
    /\ UNCHANGED <<line, resolverVars, patternVars>>

NextLine == FromStr

SpecLine == InitLine /\ [][NextLine]_vars

-----------------------------------------------------------------------------
(* The pattern parser as a state machine: one text, then from_str on it *)

Words(ws) == [i \in 1..(2 * Len(ws) - 1) |->
                 IF i % 2 = 1 THEN ws[(i + 1) \div 2] ELSE SP]

SampleLines ==
    { Words(<<"Monday", "12:30", "Etc/UTC">>),
      Words(<<"Sunday", "01:30", "Europe/London">>),
      << >>,
      Words(<<"Monday", "12:30">>),
      Words(<<"12:30", "Monday", "Etc/UTC">>),
      Words(<<"Monday", "Monday", "Etc/UTC">>),
      Words(<<"Monday", "12:30", "12:30">>) }

\* the lines joined by newlines
RECURSIVE Join(_)
Join(ls) ==
    IF Len(ls) = 0 THEN << >>
    ELSE IF Len(ls) = 1 THEN ls[1]
    ELSE ls[1] \o << NL >> \o Join(Tail(ls))

Texts ==
    LET bodies == {Join(ls) : ls \in SeqsUpTo(SampleLines, MaxLines)}
    IN  bodies \cup {b \o << NL >> : b \in bodies}

InitPattern ==
    /\ text \in Texts
    /\ pattern = NoParse
    /\ line = << >>
    /\ parsed = NoParse
    /\ shift = NoShift
    /\ dt = NoDt
    /\ result = NoResult
    /\ requery = NoResult
    /\ retag = NoResult

PatternFromStr ==
    /\ pattern.kind = "none"
    /\ pattern' = pattern_from_str(text)
    /\ UNCHANGED <<text, resolverVars, lineVars>>

NextPattern == PatternFromStr

SpecPattern == InitPattern /\ [][NextPattern]_vars

-----------------------------------------------------------------------------
(* Vocabulary of the resolver's properties *)

Week == 7 * 24 * 3600

InZone(u, a) == [utc |-> u, tz |-> a.start_tz]

\* the instant u, shown in a's zone, reads a's weekday and a's time of day
Reads(u, a) ==
    /\ WeekdayOf(date_naive(InZone(u, a))) = a.weekday
    /\ time_naive(InZone(u, a)) = a.start

\* every instant that reads the civil date-time ndt in a's zone
InstantsOf(ndt, a) ==
    {u \in {ndt - timespans(a.start_tz)[i].off :
                i \in 1..Len(timespans(a.start_tz))} :
        naive_local(InZone(u, a)) = ndt}

\* every instant x with lo < x <= hi that reads a's weekday and time of day
OccurrencesBetween(lo, hi, a) ==
    {x \in UNION {InstantsOf(and_time(d, a.start), a) :
                     d \in ((lo \div SecsPerDay) - 1)..((hi \div SecsPerDay) + 1)} :
        /\ lo < x
        /\ x <= hi
        /\ Reads(x, a)}

\* the civil date of a's weekday in the ISO week of the reference (in a's zone)
CandidateDate(a, r) ==
    LET d == date_naive(InZone(r.utc, a))
    IN  d - (WeekdayOf(d) - 1) + (a.weekday - 1)

CandidateInstants(a, r) == InstantsOf(and_time(CandidateDate(a, r), a.start), a)
PriorInstants(a, r) == InstantsOf(and_time(CandidateDate(a, r) - 7, a.start), a)

Min(S) == CHOOSE x \in S : \A y \in S : x <= y

\* the first call returned the occurrence of the week before the reference's
TookPrior ==
    /\ result.kind = "ok"
    /\ date_naive(InZone(result.utc, shift)) = CandidateDate(shift, dt) - 7

-----------------------------------------------------------------------------
\* C1: whenever prev_start returns, the returned instant is not after the
\* reference, as absolute instants, in both branches and across offset changes
Thm_C1_ResultNotAfterReference ==
    result.kind = "ok" => result.utc <= dt.utc

\* the week-prior branch returned, across a change of the zone's offset
Wit_C1_PriorAcrossOffsetChange ==
    /\ TookPrior
    /\ offset_from_utc(shift.start_tz, result.utc)
          # offset_from_utc(shift.start_tz, dt.utc)
    /\ result.utc <= dt.utc

\* C2 (as claimed): no instant after the result and up to the reference reads
\* the anchor's weekday and time of day, folds included
Cex_C2_NoOccurrenceBetween ==
    result.kind = "ok" => OccurrencesBetween(result.utc, dt.utc, shift) = {}

\* C2 (amended): an instant after the result and up to the reference that
\* reads the anchor's weekday and time of day can only be the second instant
\* of the fold whose first instant is the result (same civil date-time)
Thm_C2_LatestUpToFoldTwin ==
    result.kind = "ok" =>
        \A x \in OccurrencesBetween(result.utc, dt.utc, shift) :
            naive_local(InZone(x, shift)) = naive_local(InZone(result.utc, shift))

\* a reference a full week less one second after the returned occurrence,
\* and one after both instants of a fold
Wit_C2_FoldTwinBetween ==
    /\ result.kind = "ok"
    /\ OccurrencesBetween(result.utc, dt.utc, shift) # {}

\* C3: the returned instant, shown in the anchor's zone, reads exactly the
\* anchor's weekday and time of day, also when the week-prior branch crosses
\* an offset change (the two instants then are not 168 hours apart)
Thm_C3_ResultReadsAnchor ==
    result.kind = "ok" => Reads(result.utc, shift)

Wit_C3_PriorNot168Hours ==
    /\ TookPrior
    /\ CandidateInstants(shift, dt) # {}
    /\ Min(CandidateInstants(shift, dt)) - result.utc # Week
    /\ Reads(result.utc, shift)

\* C4: prev_start on its own result returns that result again
Thm_C4_RequeryIdempotent ==
    requery.kind # "none" => requery = result

\* re-query at the first instant of a fold
Wit_C4_RequeryAtFold ==
    /\ requery.kind = "ok"
    /\ requery = result
    /\ Cardinality(InstantsOf(naive_local(InZone(result.utc, shift)), shift)) = 2

\* C5: in a zone of constant offset the result is the occurrence o exactly
\* when o <= reference < o + 7 days
Thm_C5_ConstantOffsetWindow ==
    (result.kind # "none" /\ Len(timespans(shift.start_tz)) = 1) =>
        /\ result.kind = "ok"
        /\ \A o \in OccurrencesBetween(dt.utc - 2 * Week, dt.utc + 2 * Week, shift) :
              (result.utc = o) <=> (o <= dt.utc /\ dt.utc < o + Week)

\* Monday 12:30 Etc/UTC queried at 2000-01-10T12:29:59Z gives 2000-01-03T12:30Z
Wit_C5_LastSecondOfWindow ==
    /\ shift = WeeklyShift(1, hms(12, 30, 0), "Etc/UTC")
    /\ dt.utc = and_time(from_ymd(2000, 1, 10), hms(12, 29, 59))
    /\ result.kind = "ok"
    /\ result.utc = and_time(from_ymd(2000, 1, 3), hms(12, 30, 0))

Thm_C9_FoldResolvesEarliest ==
    result.kind # "none" =>
        /\ result.kind = "ok" =>
              \A x \in InstantsOf(naive_local(InZone(result.utc, shift)), shift) :
                  result.utc <= x
        /\ (/\ Cardinality(CandidateInstants(shift, dt)) = 2
            /\ Min(CandidateInstants(shift, dt)) <= dt.utc)
              => (result.kind = "ok"
                    /\ result.utc = Min(CandidateInstants(shift, dt)))
        /\ (/\ Cardinality(PriorInstants(shift, dt)) = 2
            /\ CandidateInstants(shift, dt) # {}
            /\ Min(CandidateInstants(shift, dt)) > dt.utc)
              => (result.kind = "ok"
                    /\ result.utc = Min(PriorInstants(shift, dt)))

\* a reference strictly between the two instants of the candidate's fold
Wit_C9_ReferenceInsideFold ==
    /\ result.kind = "ok"
    /\ Cardinality(CandidateInstants(shift, dt)) = 2
    /\ \E x \in CandidateInstants(shift, dt) : result.utc < dt.utc /\ dt.utc < x
    /\ result.utc = Min(CandidateInstants(shift, dt))

\* C10 (as claimed): prev_start fails exactly when the occurrence it has to
\* return is in a gap: a candidate in a gap whose civil date-time is after
\* the reference's does not keep it from returning the week-prior occurrence
Cex_C10_FailsOnlyForReturnedOccurrence ==
    result.kind # "none" =>
        LET cand == CandidateInstants(shift, dt)
            prior == PriorInstants(shift, dt)
            candAfter ==
                IF cand = {}
                THEN and_time(CandidateDate(shift, dt), shift.start)
                        > naive_local(InZone(dt.utc, shift))
                ELSE Min(cand) > dt.utc
        IN  (result.kind = "panic") <=>
                (IF candAfter THEN prior = {} ELSE cand = {})

\* C10 (amended): prev_start fails exactly when the current-week candidate is
\* in a gap, before or after the reference alike, or when the candidate is
\* after the reference and the week-prior date-time is in a gap; what it
\* returns always reads the anchor's weekday and time of day
Thm_C10_FailsOnAnyCandidateGap ==
    result.kind # "none" =>
        LET cand == CandidateInstants(shift, dt)
            prior == PriorInstants(shift, dt)
        IN  /\ (result.kind = "panic") <=>
                  (cand = {} \/ (Min(cand) > dt.utc /\ prior = {}))
            /\ result.kind = "ok" => Reads(result.utc, shift)

\* the candidate is in a gap after the reference, the week before is not
Wit_C10_PanicOnLaterGap ==
    /\ result.kind = "panic"
    /\ CandidateInstants(shift, dt) = {}
    /\ PriorInstants(shift, dt) # {}
    /\ and_time(CandidateDate(shift, dt), shift.start)
          > naive_local(InZone(dt.utc, shift))

-----------------------------------------------------------------------------
(* Vocabulary of the parsers' properties *)

NumTokens(s) == Cardinality({i \in 1..Len(s) : s[i] = SP}) + 1

FieldErrors == {"Weekday", "StartTime", "TimeZone"}

\* the k-th token parses as the k-th field
FieldOk(toks, k) ==
    CASE k = 1 -> parse_weekday(toks[1]).some
      [] k = 2 -> parse_time(toks[2]).some
      [] k = 3 -> parse_tz(toks[3]).some

FieldError(k) == CASE k = 1 -> "Weekday" [] k = 2 -> "StartTime" [] k = 3 -> "TimeZone"

\* the first of the three fields whose token is missing or does not parse
Stops(toks) == {k \in 1..3 : k > Len(toks) \/ ~FieldOk(toks, k)}

\* C7 (as claimed): a line of fewer than three tokens gives InvalidWeeklyShift,
\* whatever its tokens are, and the three field errors come only from lines
\* that have all three tokens
Cex_C7_FewTokensAlwaysInvalid ==
    parsed.kind # "none" =>
        /\ NumTokens(line) < 3 =>
              (parsed.kind = "err" /\ parsed.err = "InvalidWeeklyShift")
        /\ (parsed.kind = "err" /\ parsed.err \in FieldErrors) =>
              NumTokens(line) >= 3

\* C7 (amended): the tokens are parsed in the order weekday, time, zone, and
\* the first one that is missing or does not parse decides: a missing token
\* gives InvalidWeeklyShift, a present one that does not parse gives its
\* field's error, also on a line of fewer than three tokens; the empty line
\* is one empty token and gives the weekday error
Thm_C7_FirstMissingOrBadToken ==
    parsed.kind # "none" =>
        LET toks == Split(line, SP)
            stops == Stops(toks)
        IN  /\ Len(toks) = NumTokens(line)
            /\ IF stops = {} THEN parsed.kind = "ok"
               ELSE /\ parsed.kind = "err"
                    /\ parsed.err = (IF Min(stops) > Len(toks)
                                     THEN "InvalidWeeklyShift"
                                     ELSE FieldError(Min(stops)))
            /\ line = << >> => parsed = ParseErr("Weekday")

\* a line of two tokens whose second is no time
Wit_C7_FieldErrorOnShortLine ==
    /\ parsed.kind = "err"
    /\ NumTokens(line) = 2
    /\ parsed.err = "StartTime"

====
